---- MODULE Spec2Model ----
(***************************************************************************)
(* A model of gridarr (src/src/gridarr.ts): the GridArr constructor, the   *)
(* overflow resolution, and the cell / row / col / area / relative         *)
(* queries.                                                                *)
(*                                                                         *)
(* JavaScript values are records with a "type" field, so that a raw value, *)
(* the value undefined and a GridArrCell instance can sit in one items     *)
(* array and be told apart the way the code does (instanceof, ===).        *)
(* A config object is a record that has a field exactly when the caller    *)
(* passed it.  A GridArr instance is named by its identifier; a cell's     *)
(* _grid back-reference holds that identifier.                             *)
(***************************************************************************)
EXTENDS Integers, Sequences, FiniteSets, TLC

VARIABLES grids, configs, result
vars == <<grids, configs, result>>

(* ------------------------------ bounds --------------------------------- *)
\* longest raw items array passed to a constructor
MaxItems == 4
\* largest rowCount / colCount passed to a constructor
MaxDim == 2
\* query coordinates range over -MaxCoord .. MaxCoord
MaxCoord == 3
\* area widths and heights range over -MaxSpan .. MaxSpan
MaxSpan == 2

(* --------------------------- JavaScript values ------------------------- *)
Undefined == [type |-> "undefined"]
Num(k) == [type |-> "number", value |-> k]
IsCell(item) == item.type = "GridArrCell"

\* the two grids of the model: A is built from raw values, B from cells of A
GridIds == {"A", "B"}
NoGrid == [type |-> "none"]
Thrown(msg) == [type |-> "Error", message |-> msg]
IsGrid(v) == v.type = "GridArr"

OverflowType == {"none", "wrap", "constrain"}

\* a field the caller passed
Has(config, f) == f \in DOMAIN config
\* JavaScript truthiness of an optional number field: undefined and 0 are falsy
TruthyNum(config, f) == Has(config, f) /\ config[f] # 0
\* a || b || c over optional OverflowType strings (every policy name is truthy)
OrElse(config, f, other) == IF Has(config, f) THEN config[f] ELSE other

Min(a, b) == IF a < b THEN a ELSE b
Max(a, b) == IF a > b THEN a ELSE b
Abs(a) == IF a < 0 THEN -a ELSE a
\* Math.ceil(a / b) for a >= 0, b > 0
Ceil(a, b) == -((-a) \div b)
\* Math.floor(a / b) for a >= 0, b > 0
Floor(a, b) == a \div b
\* the JavaScript % operator: the remainder takes the sign of the dividend
JsRem(a, b) == IF a >= 0 THEN a % b ELSE -((-a) % b)

(* ------------------------------ constructor ---------------------------- *)
\* the filler callback used by the model's callers: it records its arguments
filler(col, row, idx) == [type |-> "filled", col |-> col, row |-> row, idx |-> idx]

\* config.items = config.items||[]
ItemsOf(config) == IF Has(config, "items") THEN config.items ELSE <<>>

\* config.overflow||config.overflowX||this.overflowX
ConfigOverflowX(config) ==
    OrElse(config, "overflow", OrElse(config, "overflowX", "none"))

\* config.overflow||this.overflowY||this.overflowY: config.overflowY is not read
ConfigOverflowY(config) ==
    OrElse(config, "overflow", "none")

ambiguousCol == "Passing colCount without rowCount OR items results in an empty grid with zero dimensions."
ambiguousRow == "Passing rowCount without colCount OR items results in an empty grid with zero dimensions."
tooFew == "items have been supplied to a grid with fewer cells. Please pass an items array and/or filler function."

InferDims_Floor(config) ==
    LET len == Len(ItemsOf(config)) IN
    IF TruthyNum(config, "colCount") /\ TruthyNum(config, "rowCount")
    THEN [threw |-> FALSE, rowCount |-> config.rowCount, colCount |-> config.colCount]
    ELSE IF ~TruthyNum(config, "colCount") /\ ~TruthyNum(config, "rowCount")
    THEN [threw |-> FALSE, rowCount |-> 1, colCount |-> len]
    ELSE IF TruthyNum(config, "colCount")
    THEN IF len = 0
         THEN [threw |-> TRUE, message |-> ambiguousCol]
         ELSE [threw |-> FALSE, rowCount |-> Floor(len, config.colCount),
               colCount |-> config.colCount]
    ELSE IF len = 0
         THEN [threw |-> TRUE, message |-> ambiguousRow]
         ELSE [threw |-> FALSE, rowCount |-> config.rowCount,
               colCount |-> Floor(len, config.rowCount)]
\* the four branches that set _rowCount and _colCount
InferDims(config) ==
    LET len == Len(ItemsOf(config)) IN
    IF TruthyNum(config, "colCount") /\ TruthyNum(config, "rowCount")
    THEN [threw |-> FALSE, rowCount |-> config.rowCount, colCount |-> config.colCount]
    ELSE IF ~TruthyNum(config, "colCount") /\ ~TruthyNum(config, "rowCount")
    THEN [threw |-> FALSE, rowCount |-> 1, colCount |-> len]
    ELSE IF TruthyNum(config, "colCount")
    THEN IF len = 0
         THEN [threw |-> TRUE, message |-> ambiguousCol]
         ELSE [threw |-> FALSE, rowCount |-> Ceil(len, config.colCount),
               colCount |-> config.colCount]
    ELSE IF len = 0
         THEN [threw |-> TRUE, message |-> ambiguousRow]
         ELSE [threw |-> FALSE, rowCount |-> config.rowCount,
               colCount |-> Ceil(len, config.rowCount)]

TooFewItems_IgnoreFiller(config, gridCellCount) ==
    Len(ItemsOf(config)) < gridCellCount
\* config.items.length < gridCellCount && !config.filler
TooFewItems(config, gridCellCount) ==
    Len(ItemsOf(config)) < gridCellCount /\ ~Has(config, "filler")

SizedArr_NoClip(items, gridCellCount) ==
    items \o [k \in 1 .. Max(0, gridCellCount - Len(items)) |-> Undefined]
\* items.slice(0, n).concat(Array(Math.max(0, n - items.length)).fill(undefined))
SizedArr(items, gridCellCount) ==
    SubSeq(items, 1, Min(Len(items), gridCellCount))
        \o [k \in 1 .. Max(0, gridCellCount - Len(items)) |-> Undefined]

\* new GridArrCell(item, {x, y}, this, n)
GridArrCell(contents, gridRef, grid, listIndex) ==
    [type |-> "GridArrCell", _contents |-> contents, _gridRef |-> gridRef,
     _grid |-> grid, _listIndex |-> listIndex]

\* the callback of sizedArr.map, for the item at 0-based index n of grid g
MapItem(g, config, colCount, item, n) ==
    LET x == n % colCount
        y == Floor(n, colCount)
    IN  IF IsCell(item)
        THEN item
        ELSE GridArrCell(
                 IF item = Undefined /\ Has(config, "filler")
                 THEN filler(x, y, n) ELSE item,
                 [x |-> x, y |-> y], g, n)

\* new GridArr(config), for the instance named g: the instance, or the Error thrown
NewGridArr(g, config) ==
    LET dims == InferDims(config) IN
    IF dims.threw THEN Thrown(dims.message)
    ELSE LET gridCellCount == dims.colCount * dims.rowCount IN
         IF TooFewItems(config, gridCellCount) THEN Thrown(tooFew)
         ELSE LET sizedArr == SizedArr(ItemsOf(config), gridCellCount) IN
              [type |-> "GridArr",
               _items |-> [k \in 1 .. Len(sizedArr) |->
                              MapItem(g, config, dims.colCount, sizedArr[k], k - 1)],
               _colCount |-> dims.colCount,
               _rowCount |-> dims.rowCount,
               overflowX |-> ConfigOverflowX(config),
               overflowY |-> ConfigOverflowY(config)]

(* ------------------------------- queries ------------------------------- *)
\* an overflow argument the caller left out
NoOverride == "undefined"
Overrides == OverflowType \cup {NoOverride}
\* a || b over an optional OverflowType argument
Or(a, b) == IF a # NoOverride THEN a ELSE b

\* a query's value: a cell, undefined, or an array of cells
Array(elems) == [type |-> "Array", elems |-> elems]

\* Math.max(Math.min(n, b), a)
clamp(n, a, b) == Max(Min(n, b), a)

Wrap_Rem(a, extent) ==
    IF extent = 0 THEN [nan |-> TRUE, n |-> 0]
    ELSE [nan |-> FALSE, n |-> JsRem(a, extent)]
\* ((a % extent) + extent) % extent ; NaN when extent is 0
Wrap(a, extent) ==
    IF extent = 0 THEN [nan |-> TRUE, n |-> 0]
    ELSE [nan |-> FALSE, n |-> JsRem(JsRem(a, extent) + extent, extent)]

\* one axis of applyOverflowToGridRef: the nested conditional on the policy
Overflowed(policy, a, extent) ==
    IF policy = "wrap" THEN Wrap(a, extent)
    ELSE IF policy = "constrain" THEN [nan |-> FALSE, n |-> clamp(a, 0, extent - 1)]
    ELSE [nan |-> FALSE, n |-> a]

\* aOverflowY||aOverflowX||this.overflowY
TempOverflowY(grid, aOverflowX, aOverflowY) ==
    Or(aOverflowY, Or(aOverflowX, grid.overflowY))

\* aOverflowX||this.overflowX
TempOverflowX(grid, aOverflowX) == Or(aOverflowX, grid.overflowX)

\* the resolved {x, y}; a coordinate whose nan is TRUE is NaN
applyOverflowToGridRef(grid, aX, aY, aOverflowX, aOverflowY) ==
    [x |-> Overflowed(TempOverflowX(grid, aOverflowX), aX, grid._colCount),
     y |-> Overflowed(TempOverflowY(grid, aOverflowX, aOverflowY), aY, grid._rowCount)]

CellAt_Unchecked(grid, x, y) ==
    IF y * grid._colCount + x + 1 \in DOMAIN grid._items
    THEN grid._items[y * grid._colCount + x + 1]
    ELSE Undefined
\* the bounds test and the array read of cell, for a resolved x and y
CellAt(grid, x, y) ==
    IF x >= grid._colCount \/ x < 0 \/ y >= grid._rowCount \/ y < 0
    THEN Undefined
    ELSE grid._items[y * grid._colCount + x + 1]

\* grid.cell(aX, aY, aOverflowX, aOverflowY): every comparison with NaN is
\* false, and _items[NaN] is undefined
cell(g, aX, aY, aOverflowX, aOverflowY) ==
    LET ref == applyOverflowToGridRef(grids[g], aX, aY, aOverflowX, aOverflowY) IN
    IF ref.x.nan \/ ref.y.nan THEN Undefined
    ELSE CellAt(grids[g], ref.x.n, ref.y.n)

\* grid.row(idx, aOverflowX, aOverflowY)
row(g, idx, aOverflowX, aOverflowY) ==
    LET grid == grids[g]
        y == applyOverflowToGridRef(grid, 0, idx, aOverflowX, aOverflowY).y
    IN  IF ~y.nan /\ (y.n >= grid._rowCount \/ y.n < 0) THEN Undefined
        ELSE IF y.nan THEN Array(<<>>)
        ELSE Array(SubSeq(grid._items, y.n * grid._colCount + 1,
                          Min((y.n + 1) * grid._colCount, Len(grid._items))))

\* grid.col(idx, aOverflowX, aOverflowY)
col(g, idx, aOverflowX, aOverflowY) ==
    LET grid == grids[g]
        x == applyOverflowToGridRef(grid, idx, 0, aOverflowX, aOverflowY).x
    IN  IF ~x.nan /\ (x.n >= grid._colCount \/ x.n < 0) THEN Undefined
        ELSE IF x.nan THEN Array(<<>>)
        ELSE LET idxs == {k \in 1 .. Len(grid._items) : (k - 1) % grid._colCount = x.n}
                 nth[k \in 0 .. Len(grid._items)] ==
                     IF k = 0 THEN <<>>
                     ELSE IF k \in idxs THEN Append(nth[k - 1], grid._items[k])
                     ELSE nth[k - 1]
             IN  Array(nth[Len(grid._items)])

\* cell.relative(aX, aY, aOverflowX, aOverflowY): asks the grid the cell refers to
relative(c, aX, aY, aOverflowX, aOverflowY) ==
    cell(c._grid, c._gridRef.x + aX, c._gridRef.y + aY, aOverflowX, aOverflowY)

\* aWidth<0 ? aWidth+1 : aWidth-1
Extent(a) == IF a < 0 THEN a + 1 ELSE a - 1

\* grid.area(aX, aY, aWidth, aHeight, aOverflowX, aOverflowY)
area(g, aX, aY, aWidth, aHeight, aOverflowX, aOverflowY) ==
    LET w == Extent(aWidth)
        h == Extent(aHeight)
        ref == applyOverflowToGridRef(grids[g], aX + Min(w, 0), aY + Min(h, 0),
                                      aOverflowX, aOverflowY)
        c0 == IF ref.x.nan \/ ref.y.nan THEN Undefined
              ELSE cell(g, ref.x.n, ref.y.n, NoOverride, NoOverride)
    IN  IF c0 = Undefined THEN Undefined
        ELSE LET cols == Abs(w) + 1
                 temp == [k \in 1 .. (Abs(h) + 1) * cols |->
                             relative(c0, (k - 1) % cols, (k - 1) \div cols,
                                      aOverflowX, aOverflowY)]
                 defined(i) == i # Undefined
             IN  Array(SelectSeq(temp, defined))

(* --------------------------- constructor inputs ------------------------ *)
\* a field that is either not passed or passed with a value of S
Opt(f, S) == {<<>>} \cup {f :> v : v \in S}

\* raw items arrays of length len: slot k holds the number k or undefined
RawItems(len) == {[k \in 1 .. len |-> IF k \in U THEN Undefined ELSE Num(k)] :
                     U \in SUBSET (1 .. len)}

\* configs that vary the items, the counts and the filler
SizingConfigs ==
    {i @@ r @@ c @@ f :
        i \in Opt("items", UNION {RawItems(len) : len \in 0 .. MaxItems}),
        r \in Opt("rowCount", 0 .. MaxDim),
        c \in Opt("colCount", 0 .. MaxDim),
        f \in Opt("filler", {"filler"})}

\* configs that vary the three overflow settings, over the numbers 1 .. MaxItems
OverflowConfigs ==
    {[items |-> [k \in 1 .. MaxItems |-> Num(k)]] @@ o @@ ox @@ oy :
        o \in Opt("overflow", OverflowType),
        ox \in Opt("overflowX", OverflowType),
        oy \in Opt("overflowY", OverflowType)}

Reverse(s) == [k \in 1 .. Len(s) |-> s[Len(s) + 1 - k]]

\* configs whose items are the cells of an existing grid, in either order
CellConfigs(grid) ==
    {[items |-> i] @@ r @@ c @@ f :
        i \in {grid._items, Reverse(grid._items)},
        r \in Opt("rowCount", 1 .. MaxDim),
        c \in Opt("colCount", 1 .. MaxDim),
        f \in Opt("filler", {"filler"})}

(* -------------------------------- state -------------------------------- *)
NoResult == [op |-> "none"]

Init ==
    /\ grids = [g \in GridIds |-> NoGrid]
    /\ configs = [g \in GridIds |-> <<>>]
    /\ result = NoResult

\* const g = new GridArr(config)
Construct(g, config) ==
    /\ grids[g] = NoGrid
    /\ grids' = [grids EXCEPT ![g] = NewGridArr(g, config)]
    /\ configs' = [configs EXCEPT ![g] = config]
    /\ UNCHANGED result

\* grid A is built from raw values
BuildFromValues == \E config \in SizingConfigs \cup OverflowConfigs : Construct("A", config)

\* grid B is built from the cells of grid A
BuildFromCells ==
    /\ IsGrid(grids["A"])
    /\ \E config \in CellConfigs(grids["A"]) : Construct("B", config)

NextBuild == BuildFromValues \/ BuildFromCells

SpecBuild == Init /\ [][NextBuild]_vars

(* ------------------------ the query specification ---------------------- *)
Coords == -MaxCoord .. MaxCoord
Spans == -MaxSpan .. MaxSpan
\* the reference coordinates of area queries: one step outside the largest grid
AreaCoords == -1 .. MaxDim

\* the overflow settings that reach every configured pair of policies
QueryOverflow ==
    {<<>>} \cup {"overflow" :> p : p \in OverflowType \ {"none"}}
           \cup {"overflowX" :> p : p \in OverflowType \ {"none"}}

\* grids of the numbers 1 .. MaxItems, and the grid of no items
QueryConfigs ==
    {[items |-> [k \in 1 .. len |-> Num(k)], filler |-> "filler"] @@ c @@ o :
        len \in {0, MaxItems},
        c \in Opt("colCount", 1 .. MaxDim),
        o \in QueryOverflow}

\* grid A is built from the numbers
QueryBuildFromValues == \E config \in QueryConfigs : Construct("A", config)

\* grid B is built like grid A, from the cells of grid A in reverse order
QueryBuildFromCells ==
    /\ IsGrid(grids["A"])
    /\ Construct("B", [items |-> Reverse(grids["A"]._items)]
                          @@ [f \in DOMAIN configs["A"] \ {"items"} |-> configs["A"][f]])

Cell_StoresOverride(g) ==
    /\ result = NoResult
    /\ IsGrid(grids[g])
    /\ \E aX \in Coords, aY \in Coords, ox \in Overrides, oy \in Overrides :
           /\ result' = [op |-> "cell", g |-> g, aX |-> aX, aY |-> aY, ox |-> ox, oy |-> oy,
                         value |-> cell(g, aX, aY, ox, oy)]
           /\ grids' = [grids EXCEPT ![g].overflowX = TempOverflowX(grids[g], ox),
                                     ![g].overflowY = TempOverflowY(grids[g], ox, oy)]
    /\ UNCHANGED configs
\* g.cell(aX, aY, ox, oy)
Cell(g) ==
    /\ result = NoResult
    /\ IsGrid(grids[g])
    /\ \E aX \in Coords, aY \in Coords, ox \in Overrides, oy \in Overrides :
           result' = [op |-> "cell", g |-> g, aX |-> aX, aY |-> aY, ox |-> ox, oy |-> oy,
                      value |-> cell(g, aX, aY, ox, oy)]
    /\ UNCHANGED <<grids, configs>>

\* g.row(idx, ox, oy)
Row(g) ==
    /\ result = NoResult
    /\ IsGrid(grids[g])
    /\ \E idx \in Coords, ox \in Overrides, oy \in Overrides :
           result' = [op |-> "row", g |-> g, idx |-> idx, ox |-> ox, oy |-> oy,
                      value |-> row(g, idx, ox, oy)]
    /\ UNCHANGED <<grids, configs>>

\* g.col(idx, ox, oy)
Col(g) ==
    /\ result = NoResult
    /\ IsGrid(grids[g])
    /\ \E idx \in Coords, ox \in Overrides, oy \in Overrides :
           result' = [op |-> "col", g |-> g, idx |-> idx, ox |-> ox, oy |-> oy,
                      value |-> col(g, idx, ox, oy)]
    /\ UNCHANGED <<grids, configs>>

\* g.area(aX, aY, aWidth, aHeight, ox, oy)
Area(g) ==
    /\ result = NoResult
    /\ IsGrid(grids[g])
    /\ \E aX \in AreaCoords, aY \in AreaCoords, aWidth \in Spans, aHeight \in Spans,
          ox \in Overrides, oy \in Overrides :
           result' = [op |-> "area", g |-> g, aX |-> aX, aY |-> aY,
                      aWidth |-> aWidth, aHeight |-> aHeight, ox |-> ox, oy |-> oy,
                      value |-> area(g, aX, aY, aWidth, aHeight, ox, oy)]
    /\ UNCHANGED <<grids, configs>>

\* g.cells[k - 1].relative(aX, aY, ox, oy)
Relative(g) ==
    /\ result = NoResult
    /\ IsGrid(grids[g])
    /\ \E k \in 1 .. Len(grids[g]._items), aX \in Spans, aY \in Spans,
          ox \in Overrides, oy \in Overrides :
           result' = [op |-> "relative", g |-> g, k |-> k, aX |-> aX, aY |-> aY,
                      ox |-> ox, oy |-> oy,
                      value |-> relative(grids[g]._items[k], aX, aY, ox, oy)]
    /\ UNCHANGED <<grids, configs>>

\* the caller is done with the value a query returned; calls are synchronous,
\* so the next call starts after the previous one returned
Return ==
    /\ result # NoResult
    /\ result' = NoResult
    /\ UNCHANGED <<grids, configs>>

Next ==
    \/ QueryBuildFromValues
    \/ QueryBuildFromCells
    \/ \E g \in GridIds : Cell(g)
    \/ \E g \in GridIds : Row(g)
    \/ \E g \in GridIds : Col(g)
    \/ \E g \in GridIds : Area(g)
    \/ \E g \in GridIds : Relative(g)
    \/ Return

Spec == Init /\ [][Next]_vars

(* ------------------- properties of construction ------------------------ *)
Built(g) == IsGrid(grids[g])
Failed(g) == grids[g].type = "Error"
\* the length of the items the caller passed to the constructor of g
Supplied(g) == Len(ItemsOf(configs[g]))
BothGiven(config) == TruthyNum(config, "rowCount") /\ TruthyNum(config, "colCount")
NeitherGiven(config) == ~TruthyNum(config, "rowCount") /\ ~TruthyNum(config, "colCount")
OnlyCol(config) == TruthyNum(config, "colCount") /\ ~TruthyNum(config, "rowCount")
OnlyRow(config) == TruthyNum(config, "rowCount") /\ ~TruthyNum(config, "colCount")
\* q = ceil(len / d), stated without the model's Ceil
IsCeilOf(q, len, d) == q * d >= len /\ (q - 1) * d < len
AllRaw(items) == \A k \in 1 .. Len(items) : ~IsCell(items[k])

\* C1: every constructed grid is rectangular: it has rowCount * colCount cells
C1_Rectangular ==
    \A g \in GridIds :
        Built(g) => Len(grids[g]._items) = grids[g]._rowCount * grids[g]._colCount

\* C1 witness: a grid that clipped its items, and a grid that padded them
C1_Witness ==
    /\ Built("A") /\ Supplied("A") > Len(grids["A"]._items)
    /\ Built("B") /\ Supplied("B") < Len(grids["B"]._items)
    /\ Supplied("B") > 0

\* C2: in every constructed grid, built from raw values or from pre-built
\* cells, the cell in slot n records listIndex n and position
\* (n mod colCount, floor(n / colCount))
C2_CellsRecordTheirSlot ==
    \A g \in GridIds :
        Built(g) =>
            \A k \in 1 .. Len(grids[g]._items) :
                LET item == grids[g]._items[k] IN
                /\ item._listIndex = k - 1
                /\ item._gridRef.x = (k - 1) % grids[g]._colCount
                /\ item._gridRef.y = (k - 1) \div grids[g]._colCount

\* C3: both counts given: exactly those; neither: 1 x length(items); only
\* colCount: rowCount = ceil(length / colCount); only rowCount: colCount =
\* ceil(length / rowCount); and when the items fill the grid exactly, giving
\* only the other count builds the identical grid
C3_DimensionInference ==
    \A g \in GridIds :
        Built(g) =>
            LET c == configs[g]
                grid == grids[g]
            IN
            /\ BothGiven(c) =>
                   grid._rowCount = c.rowCount /\ grid._colCount = c.colCount
            /\ NeitherGiven(c) =>
                   grid._rowCount = 1 /\ grid._colCount = Supplied(g)
            /\ OnlyCol(c) =>
                   /\ grid._colCount = c.colCount
                   /\ IsCeilOf(grid._rowCount, Supplied(g), c.colCount)
                   /\ Supplied(g) = grid._rowCount * grid._colCount =>
                          NewGridArr(g, [f \in DOMAIN c \ {"colCount", "rowCount"} |-> c[f]]
                                            @@ [rowCount |-> grid._rowCount]) = grid
            /\ OnlyRow(c) =>
                   /\ grid._rowCount = c.rowCount
                   /\ IsCeilOf(grid._colCount, Supplied(g), c.rowCount)
                   /\ Supplied(g) = grid._rowCount * grid._colCount =>
                          NewGridArr(g, [f \in DOMAIN c \ {"colCount", "rowCount"} |-> c[f]]
                                            @@ [colCount |-> grid._colCount]) = grid

\* C3 witness: four items with only colCount = 2 make a 2 x 2 grid, and its four
\* cells with only rowCount = 1 make a 1 x 4 grid
C3_Witness ==
    /\ Built("A") /\ OnlyCol(configs["A"]) /\ Supplied("A") = 4
    /\ grids["A"]._rowCount = 2 /\ grids["A"]._colCount = 2
    /\ Built("B") /\ OnlyRow(configs["B"]) /\ Supplied("B") = 4
    /\ grids["B"]._rowCount = 1 /\ grids["B"]._colCount = 4

\* C4: a grid built from raw values holds items[n] in every slot n below
\* min(length(items), capacity), and the filler's result for
\* (n mod colCount, floor(n / colCount), n) in every slot from length(items) on
C4_SizingAndFill ==
    \A g \in GridIds :
        (Built(g) /\ AllRaw(ItemsOf(configs[g]))) =>
            \A k \in 1 .. Len(grids[g]._items) :
                LET n == k - 1
                    cc == grids[g]._colCount
                IN  grids[g]._items[k]._contents =
                        IF k <= Supplied(g)
                        THEN ItemsOf(configs[g])[k]
                        ELSE filler(n % cc, n \div cc, n)

\* C5: construction throws exactly when (a) exactly one count is given and
\* there are no items, or (b) there are fewer items than rowCount * colCount
\* cells and no filler; a construction that threw left no grid
C5_FailsExactlyWhen ==
    \A g \in GridIds :
        grids[g] # NoGrid =>
            LET c == configs[g]
                len == Supplied(g)
                ambiguous == (OnlyCol(c) \/ OnlyRow(c)) /\ len = 0
                short == \/ BothGiven(c) /\ len < c.rowCount * c.colCount
                         \/ OnlyCol(c) /\ len % c.colCount # 0
                         \/ OnlyRow(c) /\ len % c.rowCount # 0
            IN  /\ Failed(g) <=> (ambiguous \/ (short /\ ~Has(c, "filler")))
                /\ Failed(g) \/ Built(g)
                /\ Failed(g) => DOMAIN grids[g] = {"type", "message"}

\* C5 witness: three items and only rowCount = 2 leave one cell of the inferred
\* 2 x 2 grid empty, and without a filler the constructor throws
C5_Witness ==
    /\ Built("A")
    /\ Failed("B") /\ OnlyRow(configs["B"]) /\ configs["B"].rowCount = 2
    /\ Supplied("B") = 3 /\ grids["B"].message = tooFew

\* an axis's own setting when given, otherwise the shorthand, otherwise none
PerAxisFirst(config, axis) == OrElse(config, axis, OrElse(config, "overflow", "none"))

\* C7: each axis's configured policy is its own setting when given, otherwise
\* the shorthand when given, otherwise none
C7_PerAxisOverflow ==
    \A g \in GridIds :
        Built(g) =>
            /\ grids[g].overflowX = PerAxisFirst(configs[g], "overflowX")
            /\ grids[g].overflowY = PerAxisFirst(configs[g], "overflowY")

(* ---------------------- properties of the queries ---------------------- *)
\* the grid a query was made on
Asked == grids[result.g]
IsQuery(op) == result.op = op
\* a coordinate resolved under a policy, stated with the mathematical modulo
Resolved(policy, a, extent) ==
    IF policy = "wrap" THEN a % extent
    ELSE IF policy = "constrain"
         THEN (IF a < 0 THEN 0 ELSE IF a > extent - 1 THEN extent - 1 ELSE a)
    ELSE a
InGrid(grid, x, y) == x \in 0 .. grid._colCount - 1 /\ y \in 0 .. grid._rowCount - 1
\* the cell in column x of row y, or undefined outside the grid
Slot(grid, x, y) ==
    IF InGrid(grid, x, y) THEN grid._items[y * grid._colCount + x + 1] ELSE Undefined

\* C6: cell(x, y, ox, oy) with both overrides given, on a grid of at least one
\* row and column, resolves each axis by its own policy (wrap: true modulo,
\* constrain: clamp, none: unchanged) and returns the cell in that slot;
\* under wrap, x + k * colCount gives the same cell as x
C6_CoordinateResolution ==
    (/\ IsQuery("cell") /\ result.ox # NoOverride /\ result.oy # NoOverride
     /\ Asked._colCount >= 1 /\ Asked._rowCount >= 1) =>
        LET rx == Resolved(result.ox, result.aX, Asked._colCount)
            ry == Resolved(result.oy, result.aY, Asked._rowCount)
        IN  /\ result.value = Slot(Asked, rx, ry)
            /\ result.ox = "wrap" =>
                   \A k \in -1 .. 1 :
                       cell(result.g, result.aX + k * Asked._colCount, result.aY,
                            result.ox, result.oy) = result.value
            /\ (result.ox = "constrain" /\ result.aX > Asked._colCount - 1) =>
                   result.value = Slot(Asked, Asked._colCount - 1, ry)
            /\ (result.ox = "constrain" /\ result.aX < 0) =>
                   result.value = Slot(Asked, 0, ry)

\* C6 witness: a negative x wrapped and a y beyond the last row constrained
C6_Witness ==
    /\ IsQuery("cell") /\ result.ox = "wrap" /\ result.oy = "constrain"
    /\ result.aX < 0 /\ result.aY > Asked._rowCount - 1
    /\ Asked._colCount = 2 /\ Asked._rowCount = 2
    /\ IsCell(result.value)

\* C8: in cell, area and relative an override left undefined for an axis means
\* the grid's own setting for that axis: the call returns what the same call
\* returns with the grid's settings passed in place of the undefined overrides
C8_UndefinedOverrideUsesGridSetting ==
    /\ IsQuery("cell") =>
           result.value = cell(result.g, result.aX, result.aY,
                               Or(result.ox, Asked.overflowX),
                               Or(result.oy, Asked.overflowY))
    /\ IsQuery("area") =>
           result.value = area(result.g, result.aX, result.aY,
                               result.aWidth, result.aHeight,
                               Or(result.ox, Asked.overflowX),
                               Or(result.oy, Asked.overflowY))
    /\ IsQuery("relative") =>
           LET c == Asked._items[result.k] IN
           result.value = relative(c, result.aX, result.aY,
                                   Or(result.ox, grids[c._grid].overflowX),
                                   Or(result.oy, grids[c._grid].overflowY))

\* both axes of a call are under none, whichever way an undefined override
\* falls back
UnderNone(grid, ox, oy) ==
    /\ Or(ox, grid.overflowX) = "none"
    /\ Or(oy, grid.overflowY) = "none"
    /\ TempOverflowY(grid, ox, oy) = "none"

Covered(a, w) == IF w > 0 THEN a .. a + w - 1 ELSE a + w + 1 .. a
\* the cells of grid in the rows ys and columns xs, in row-major order,
\* leaving out the positions outside the grid
RowMajor(grid, xs, ys) ==
    LET x0 == CHOOSE x \in xs : \A other \in xs : x <= other
        y0 == CHOOSE y \in ys : \A other \in ys : y <= other
        n == Cardinality(xs)
        all == [k \in 1 .. n * Cardinality(ys) |->
                   Slot(grid, x0 + ((k - 1) % n), y0 + ((k - 1) \div n))]
        defined(i) == i # Undefined
    IN  SelectSeq(all, defined)

\* C10: area(x, y, w, h) with nonzero w and h returns, when every covered
\* coordinate is in the grid, the |w| * |h| cells of the rectangle that holds
\* (x, y) and extends right / down for positive, left / up for negative w / h,
\* in row-major order; under none, undefined when the top-left anchor is
\* outside the grid, and otherwise the covered cells that are in the grid
C10_AreaRectangle ==
    (IsQuery("area") /\ result.aWidth # 0 /\ result.aHeight # 0) =>
        LET xs == Covered(result.aX, result.aWidth)
            ys == Covered(result.aY, result.aHeight)
            x0 == CHOOSE x \in xs : \A other \in xs : x <= other
            y0 == CHOOSE y \in ys : \A other \in ys : y <= other
            allIn == \A x \in xs, y \in ys : InGrid(Asked, x, y)
        IN  /\ allIn =>
                /\ result.value = Array(RowMajor(Asked, xs, ys))
                /\ Len(result.value.elems) = Abs(result.aWidth) * Abs(result.aHeight)
            /\ UnderNone(Asked, result.ox, result.oy) =>
                result.value = IF InGrid(Asked, x0, y0)
                               THEN Array(RowMajor(Asked, xs, ys))
                               ELSE Undefined

\* C11: every cell of a grid's cells has that grid as its back-reference, no
\* cell sits in two grids, and c.relative(dx, dy) equals
\* g.cell(c.position.x + dx, c.position.y + dy) for the grid g that holds c,
\* also when the grid was built from the cells of another grid
C11_CellsBelongToTheirGrid ==
    /\ \A g \in GridIds :
           Built(g) => \A k \in 1 .. Len(grids[g]._items) : grids[g]._items[k]._grid = g
    /\ (Built("A") /\ Built("B")) =>
           \A k \in 1 .. Len(grids["A"]._items), j \in 1 .. Len(grids["B"]._items) :
               grids["A"]._items[k] # grids["B"]._items[j]
    /\ IsQuery("relative") =>
           LET c == Asked._items[result.k] IN
           result.value = cell(result.g, c._gridRef.x + result.aX,
                               c._gridRef.y + result.aY, result.ox, result.oy)

\* a call of cell, row, col, area or relative returns in this step
QueryStep == result = NoResult /\ result' # NoResult

\* C12: a query, with any overrides, leaves every constructed grid as it was
\* (rowCount, colCount, the configured overflowX / overflowY, and the order,
\* length and contents of cells), and the same query made without overrides
\* (after an area call: the cell query at the area's reference coordinate)
\* gives the same result after the call as before it
C12_QueriesChangeNothing ==
    [][QueryStep =>
          /\ grids' = grids
          /\ \A r \in {result'} :
                 /\ r.op = "cell" =>
                        cell(r.g, r.aX, r.aY, NoOverride, NoOverride)'
                            = cell(r.g, r.aX, r.aY, NoOverride, NoOverride)
                 /\ r.op = "row" =>
                        row(r.g, r.idx, NoOverride, NoOverride)'
                            = row(r.g, r.idx, NoOverride, NoOverride)
                 /\ r.op = "col" =>
                        col(r.g, r.idx, NoOverride, NoOverride)'
                            = col(r.g, r.idx, NoOverride, NoOverride)
                 /\ r.op = "area" =>
                        cell(r.g, r.aX, r.aY, NoOverride, NoOverride)'
                            = cell(r.g, r.aX, r.aY, NoOverride, NoOverride)
                 /\ r.op = "relative" =>
                        \A c \in {grids[r.g]._items[r.k]} :
                            relative(c, r.aX, r.aY, NoOverride, NoOverride)'
                                = relative(c, r.aX, r.aY, NoOverride, NoOverride)]_vars

\* C12 witness: a cell call that overrode the grid's none with wrap on both
\* axes has returned a wrapped cell, and the grid is still configured none
C12_Witness ==
    /\ IsQuery("cell") /\ result.ox = "wrap" /\ result.oy = "wrap"
    /\ result.aX < 0 /\ result.aY > Asked._rowCount - 1
    /\ IsCell(result.value)
    /\ Asked.overflowX = "none" /\ Asked.overflowY = "none"
    /\ Asked._colCount = 2 /\ Asked._rowCount = 2

====
